---- MODULE Spec2Model ----
(***************************************************************************)
(* A model of the three server variants of the CallCoach backend:          *)
(*   - src/server.js        the persisted variant (data.json, scripts,     *)
(*                          POST /api/calls/analyze, PUT /api/scripts/:id) *)
(*   - src/unnamed/part_000 the in-memory variant with analyzeWithGemini   *)
(*   - src/unnamed/part_001 the in-memory variant with a mock analysis     *)
(* JavaScript values are records [t, n, d, s]: t is the kind of the value, *)
(* n/d a number as a reduced fraction (d = 0 is NaN) and s the payload of  *)
(* a string, array or object.                                              *)
(***************************************************************************)
EXTENDS Integers, Sequences, FiniteSets, TLC

VARIABLES
    genAI,      \* whether GEMINI_API_KEY was set when the server started
    input,      \* SpecN: the outcome of the AI call handed to analyzeWithGemini
    output,     \* SpecN: the record analyzeWithGemini returned
    phase,      \* SpecN: "input" before the call, "returned" after it;
                \* SpecP: the last PUT /api/scripts/:id and its status
    variant,    \* SpecU: which in-memory server runs ("gemini" or "mock")
    calls,      \* SpecU: the in-memory list `calls`
    req,        \* SpecU/SpecP: the state of each request handler
    file,       \* SpecP: the document stored in data.json
    now,        \* SpecU/SpecP: the clock read by Date.now() / new Date()
    aiCalls     \* number of model.generateContent calls issued so far

vars == <<genAI, input, output, phase, variant, calls, req, file, now, aiCalls>>

(***************************************************************************)
(* Bounds of the model                                                     *)
(***************************************************************************)
\* how many keys of an AI response object may deviate from the well-formed one
MaxBad == 2
\* how many requests are served
NumReq == 2
\* the last clock value
MaxClock == 1
\* the longest scripts list data.json starts with
MaxScripts == 2
\* how many PUT /api/scripts/:id requests are served
MaxPuts == 1

(***************************************************************************)
(* JavaScript values                                                       *)
(***************************************************************************)
RECURSIVE Gcd(_, _)
Gcd(a, b) == IF b = 0 THEN a ELSE Gcd(b, a % b)

Abs(x) == IF x < 0 THEN -x ELSE x

Undefined == [t |-> "undefined", n |-> 0, d |-> 1, s |-> ""]
Null == [t |-> "null", n |-> 0, d |-> 1, s |-> ""]
NaN == [t |-> "number", n |-> 0, d |-> 0, s |-> ""]
Rat(a, b) ==
    LET g == Gcd(Abs(a), Abs(b))
    IN  IF b = 0 THEN NaN
        ELSE [t |-> "number", n |-> a \div g, d |-> b \div g, s |-> ""]
Num(a) == Rat(a, 1)
Str(x) == [t |-> "string", n |-> 0, d |-> 1, s |-> x]
Bool(b) == [t |-> "boolean", n |-> IF b THEN 1 ELSE 0, d |-> 1, s |-> ""]
Arr(x) == [t |-> "array", n |-> 0, d |-> 1, s |-> x]
Obj(x) == [t |-> "object", n |-> 0, d |-> 1, s |-> x]

\* typeof v
TypeOf(v) ==
    IF v.t \in {"null", "array", "object"} THEN "object" ELSE v.t

\* a ?? b
Coalesce(a, b) == IF a.t \in {"undefined", "null"} THEN b ELSE a

\* the number a numeric string denotes; every other string converts to NaN
StringToNumber(x) ==
    CASE x = "92" -> Num(92)
      [] x = "80" -> Num(80)
      [] x = ""   -> Num(0)
      [] OTHER    -> NaN

\* ToNumber(v), the conversion the relational operators apply to an operand
ToNumber(v) ==
    CASE v.t = "number"  -> v
      [] v.t = "string"  -> StringToNumber(v.s)
      [] v.t = "boolean" -> Num(v.n)
      [] v.t = "null"    -> Num(0)
      [] OTHER           -> NaN

\* v >= k for a number literal k (false when v converts to NaN)
JsGE(v, k) ==
    LET x == ToNumber(v)
    IN  x.d # 0 /\ x.n >= k * x.d

\* whether v is truthy
Truthy(v) ==
    CASE v.t \in {"undefined", "null"} -> FALSE
      [] v.t = "number" -> v.d # 0 /\ v.n # 0
      [] v.t = "string" -> v.s # ""
      [] v.t = "boolean" -> v.n = 1
      [] OTHER -> TRUE

\* a || b
JsOr(a, b) == IF Truthy(a) THEN a ELSE b

\* a * v and v / b on numbers
JsTimes(a, v) == Rat(a * v.n, v.d)
JsDiv(v, b) == Rat(v.n, v.d * b)

(***************************************************************************)
(* analyzeWithGemini (src/unnamed/part_000)                                *)
(***************************************************************************)
\* the keys of the JSON object the prompt asks for
JsonKeys ==
    {"qualityScore", "appointmentOutcome", "conversionLikelihood",
     "scriptAdherencePercent", "skills", "coachingSummary", "callTimeline",
     "keyObjections", "strengths", "improvements", "coachingPlan",
     "recommendedPhrases", "phrasesToAvoid"}

\* the analysis fields of the record analyzeWithGemini returns
Fields ==
    {"qualityScore", "appointmentOutcome", "conversionLikelihood",
     "scriptAdherence", "skills", "coachingSummary", "callTimeline",
     "keyObjections", "strengths", "improvements", "coachingPlan",
     "recommendedPhrases", "phrasesToAvoid"}

fallback ==
    [qualityScore |-> Num(78),
     appointmentOutcome |-> Str("FollowUp"),
     conversionLikelihood |-> Str("Medium"),
     scriptAdherence |-> Rat(75, 100),
     skills |-> Obj("discovery 80, objectionHandling 65, closing 70, rapport 90"),
     coachingSummary |-> Str("Good rapport. Improve discovery questions"),
     callTimeline |-> Arr("Script Adherence, Objection"),
     keyObjections |-> Arr("Price sensitivity"),
     strengths |-> Arr("Warm tone and rapport"),
     improvements |-> Arr("Ask more open-ended discovery questions"),
     coachingPlan |-> Arr("Roleplay 3 common price objections."),
     recommendedPhrases |-> Arr("What would make this valuable enough"),
     phrasesToAvoid |-> Arr("It's just our standard package."),
     raw |-> Null]

\* An outcome of `await model.generateContent(prompt)` and JSON.parse of its
\* text: kind "throws" (the call or response.text() rejects), "unparsable"
\* (JSON.parse throws), or the kind of the parsed value: "null", "falsy"
\* (0, "" or false), "primitive" (any other non-object, or an array) or
\* "object", whose keys are f (Undefined for a key the object lacks).
NoKeys == [k \in JsonKeys |-> Undefined]
Outcome(kind, f) == [kind |-> kind, text |-> kind, f |-> f]

\* JSON.parse(text) guarded by try/catch: null when it throws
safeParseJson(resp) ==
    IF resp.kind = "unparsable" THEN Outcome("null", NoKeys) ELSE resp

\* !json
Falsy(json) == json.kind \in {"null", "falsy"}

\* json.key: undefined on a value that is no object with that key
Get(json, k) == IF json.kind = "object" THEN json.f[k] ELSE Undefined

scriptAdhPct(json) ==
    IF TypeOf(Get(json, "scriptAdherencePercent")) = "number"
    THEN Get(json, "scriptAdherencePercent")
    ELSE JsTimes(100, fallback.scriptAdherence)

\* the merge written with || in place of ??
MergeWithOr(json, text) ==
    [f \in Fields \cup {"raw"} |->
        CASE f = "raw" -> Str(text)
          [] f = "scriptAdherence" -> JsDiv(scriptAdhPct(json), 100)
          [] OTHER -> JsOr(Get(json, f), fallback[f])]

\* the object literal returned for a parsed response (lines 158-176)
Merge(json, text) ==
    [f \in Fields \cup {"raw"} |->
        CASE f = "raw" -> Str(text)
          [] f = "scriptAdherence" -> JsDiv(scriptAdhPct(json), 100)
          [] OTHER -> Coalesce(Get(json, f), fallback[f])]

analyzeWithGemini(configured, resp) ==
    IF ~configured THEN fallback
    ELSE IF resp.kind = "throws" THEN fallback
    ELSE LET json == safeParseJson(resp)
         IN  IF Falsy(json)
             THEN [fallback EXCEPT !.raw = Str(resp.text)]
             ELSE Merge(json, resp.text)

(***************************************************************************)
(* SpecN: analyzeWithGemini applied to one outcome of the AI call          *)
(***************************************************************************)
\* the type the prompt asks for under each key
NumberKeys == {"qualityScore", "scriptAdherencePercent"}
StringKeys == {"appointmentOutcome", "conversionLikelihood", "coachingSummary"}
ObjectKeys == {"skills"}

\* a well-formed value of key k
GoodValue(k) ==
    CASE k = "qualityScore" -> Num(92)
      [] k = "scriptAdherencePercent" -> Num(50)
      [] k = "appointmentOutcome" -> Str("Booked")
      [] k \in StringKeys -> Str(k)
      [] k \in ObjectKeys -> Obj(k)
      [] OTHER -> Arr(k)

\* the ways a key of the response deviates from the well-formed value
Modes == {"absent", "null", "wrong", "zero", "alt", "max"}
Deviate(k, m) ==
    CASE m = "absent" -> Undefined
      [] m = "null" -> Null
      [] m = "wrong" -> IF k \in NumberKeys THEN Str("80") ELSE Num(7)
      [] m = "zero" -> IF k \in NumberKeys THEN Num(0)
                       ELSE IF k \in StringKeys THEN Str("")
                       ELSE IF k \in ObjectKeys THEN Obj("") ELSE Arr("")
      [] m = "alt" -> IF k = "scriptAdherencePercent" THEN Num(150)
                      ELSE IF k = "qualityScore" THEN Num(60) ELSE GoodValue(k)
      [] OTHER -> IF k = "scriptAdherencePercent" THEN Num(100) ELSE GoodValue(k)

SmallKeySets == {S \in SUBSET JsonKeys : Cardinality(S) <= MaxBad}

\* an object with every key well-formed but those of S, which deviate as g says
DenseObject(S, g) ==
    [k \in JsonKeys |-> IF k \in S THEN Deviate(k, g[k]) ELSE GoodValue(k)]

\* an object that holds the keys of S only
SparseObject(S) ==
    [k \in JsonKeys |-> IF k \in S THEN GoodValue(k) ELSE Undefined]

\* the outcomes analyzeWithGemini is applied to
IsNInput(resp) ==
    \/ \E kind \in {"throws", "unparsable", "null", "falsy", "primitive"} :
          resp = Outcome(kind, NoKeys)
    \/ \E S \in SmallKeySets : \E g \in [S -> Modes] :
          resp = Outcome("object", DenseObject(S, g))
    \/ \E S \in SmallKeySets : resp = Outcome("object", SparseObject(S))

NoRequests == [p \in 1..NumReq |-> 0]
NoFile == <<>>

InitN ==
    /\ genAI \in BOOLEAN
    /\ IsNInput(input)
    /\ output = fallback
    /\ phase = "input"
    /\ variant = "normalizer"
    /\ calls = <<>>
    /\ req = NoRequests
    /\ file = NoFile
    /\ now = 0
    /\ aiCalls = 0

\* const ai = await analyzeWithGemini(...)
NAnalyze ==
    /\ phase = "input"
    /\ output' = analyzeWithGemini(genAI, input)
    /\ phase' = "returned"
    /\ aiCalls' = IF genAI THEN aiCalls + 1 ELSE aiCalls
    /\ UNCHANGED <<genAI, input, variant, calls, req, file, now>>

NextN == NAnalyze

SpecN == InitN /\ [][NextN]_vars

(***************************************************************************)
(* Claims on analyzeWithGemini                                             *)
(***************************************************************************)
\* the type of each field of the record (section 3 of the specification)
WellTyped(f, v) ==
    CASE f \in {"qualityScore", "scriptAdherence"} -> v.t = "number" /\ v.d # 0
      [] f \in StringKeys -> v.t = "string"
      [] f \in ObjectKeys -> v.t = "object"
      [] OTHER -> v.t = "array"

\* C4: for every AI response text the returned record has every expected
\* field present with a value of the expected type.
C4_AlwaysWellTyped ==
    phase = "returned" => \A f \in Fields : WellTyped(f, output[f])

\* the key of the response a field is read from
KeyOf(f) == IF f = "scriptAdherence" THEN "scriptAdherencePercent" ELSE f

MissingKeys(resp) == {k \in JsonKeys : resp.f[k] = Undefined}

\* the case C5 is about: the AI is configured and answered with an object
\* that lacks exactly one expected key
OneKeyMissing ==
    /\ phase = "returned"
    /\ genAI
    /\ input.kind = "object"
    /\ Cardinality(MissingKeys(input)) = 1

\* C5 as stated: the missing field takes the fallback value and every other
\* field carries the parsed value exactly (scriptAdherence the parsed
\* scriptAdherencePercent divided by 100).
C5_OtherFieldsExact ==
    OneKeyMissing =>
        \A f \in Fields :
            output[f] =
                IF KeyOf(f) \in MissingKeys(input) THEN fallback[f]
                ELSE IF f = "scriptAdherence"
                     THEN JsDiv(ToNumber(input.f[KeyOf(f)]), 100)
                     ELSE input.f[f]

\* C5 amended: the missing field takes the fallback value; every other field
\* carries the parsed value exactly unless the parsed value is null, and then
\* it takes the fallback value too; scriptAdherence carries
\* scriptAdherencePercent / 100 when that is a number and 0.75 otherwise.
C5_PerFieldRepair ==
    OneKeyMissing =>
        \A f \in Fields :
            output[f] =
                IF KeyOf(f) \in MissingKeys(input) THEN fallback[f]
                ELSE IF f = "scriptAdherence"
                     THEN IF input.f[KeyOf(f)].t = "number"
                          THEN JsDiv(input.f[KeyOf(f)], 100)
                          ELSE Rat(3, 4)
                     ELSE IF input.f[f] = Null THEN fallback[f]
                     ELSE input.f[f]

\* a response missing one key whose other keys hold a null, a zero and a
\* value of the wrong type has been repaired
C5_Witness ==
    /\ OneKeyMissing
    /\ \E k \in JsonKeys : input.f[k] = Null
    /\ output.qualityScore = Num(92)
    /\ output.raw = Str("object")

\* C7: scriptAdherence equals scriptAdherencePercent / 100 whenever the parsed
\* response has scriptAdherencePercent as a number in [0,100]; in every other
\* case it equals the fallback ratio 0.75.
C7_AdherenceRatio ==
    phase = "returned" =>
        LET pct == Get(safeParseJson(input), "scriptAdherencePercent")
            parsed == genAI /\ input.kind \notin {"throws", "unparsable"}
        IN  output.scriptAdherence =
                IF parsed /\ pct.t = "number" /\ pct.d # 0
                   /\ pct.n >= 0 /\ pct.n <= 100 * pct.d
                THEN Rat(pct.n, 100 * pct.d)
                ELSE Rat(3, 4)

(***************************************************************************)
(* SpecU: POST /upload of the in-memory variants                           *)
(* (src/unnamed/part_000 "gemini", src/unnamed/part_001 "mock")            *)
(***************************************************************************)
Requests == 1..NumReq

\* req.body and req.file of an upload: an empty form, and a full one
Bodies ==
    {[agentName |-> Undefined, notes |-> Undefined, transcript |-> Undefined,
      file |-> Undefined],
     [agentName |-> Str("Ann"), notes |-> Str("note"), transcript |-> Str("hello"),
      file |-> Str("call.mp3")]}

\* what the AI call of an upload may come to
UObject(q) == Outcome("object", [NoKeys EXCEPT !["qualityScore"] = q])
UOutcomes ==
    {Outcome("throws", NoKeys), Outcome("unparsable", NoKeys)}
    \cup {UObject(q) : q \in {Undefined, Num(74), Num(75), Num(84), Num(85),
                              Str("92"), Str("high")}}
    \cup {Outcome("object", [k \in JsonKeys |-> GoodValue(k)])}

\* the values Math.random() * 40 is floored to, at the thresholds and the ends
RandomDraws == {0, 14, 15, 24, 25, 39}

Idle == [pc |-> "idle", status |-> 0, seenLen |-> 0, body |-> 0]

\* requests are interchangeable: they arrive in the order of their numbers
Arrives(p) ==
    /\ req[p].pc = "idle"
    /\ IF p = 1 THEN TRUE ELSE req[p - 1].pc # "idle"

sentimentStrict(q) ==
    IF JsGE(q, 86) THEN "Positive"
    ELSE IF JsGE(q, 75) THEN "Neutral"
    ELSE "Needs Improvement"

\* let sentiment = "Needs Improvement"; if (q >= 85) ...; else if (q >= 75) ...
sentiment(q) ==
    IF JsGE(q, 85) THEN "Positive"
    ELSE IF JsGE(q, 75) THEN "Neutral"
    ELSE "Needs Improvement"

NextIdAtStart(store, seenLen) == seenLen + 1

\* id: calls.length + 1, read when the record is built
NextId(store, seenLen) == Len(store) + 1

callRecordPercent(store, seenLen, body, ai, clock) ==
    [id |-> NextId(store, seenLen),
     agentName |-> JsOr(body.agentName, Str("Unknown")),
     notes |-> JsOr(body.notes, Str("")),
     transcript |-> JsOr(body.transcript, Str("")),
     filename |-> IF Truthy(body.file) THEN body.file ELSE Str("No file"),
     qualityScore |-> ai.qualityScore,
     sentiment |-> sentiment(ai.qualityScore),
     appointmentOutcome |-> ai.appointmentOutcome,
     conversionLikelihood |-> ai.conversionLikelihood,
     scriptAdherence |-> JsTimes(100, ai.scriptAdherence),
     skills |-> ai.skills,
     coachingSummary |-> ai.coachingSummary,
     callTimeline |-> ai.callTimeline,
     keyObjections |-> ai.keyObjections,
     strengths |-> ai.strengths,
     improvements |-> ai.improvements,
     coachingPlan |-> ai.coachingPlan,
     recommendedPhrases |-> ai.recommendedPhrases,
     phrasesToAvoid |-> ai.phrasesToAvoid,
     createdAt |-> clock]

\* const callRecord = {...} of part_000
callRecord(store, seenLen, body, ai, clock) ==
    [id |-> NextId(store, seenLen),
     agentName |-> JsOr(body.agentName, Str("Unknown")),
     notes |-> JsOr(body.notes, Str("")),
     transcript |-> JsOr(body.transcript, Str("")),
     filename |-> IF Truthy(body.file) THEN body.file ELSE Str("No file"),
     qualityScore |-> ai.qualityScore,
     sentiment |-> sentiment(ai.qualityScore),
     appointmentOutcome |-> ai.appointmentOutcome,
     conversionLikelihood |-> ai.conversionLikelihood,
     scriptAdherence |-> ai.scriptAdherence,
     skills |-> ai.skills,
     coachingSummary |-> ai.coachingSummary,
     callTimeline |-> ai.callTimeline,
     keyObjections |-> ai.keyObjections,
     strengths |-> ai.strengths,
     improvements |-> ai.improvements,
     coachingPlan |-> ai.coachingPlan,
     recommendedPhrases |-> ai.recommendedPhrases,
     phrasesToAvoid |-> ai.phrasesToAvoid,
     createdAt |-> clock]

\* const callRecord = {...} of part_001
mockRecord(store, seenLen, body, draw, clock) ==
    [id |-> NextId(store, seenLen),
     agentName |-> JsOr(body.agentName, Str("Unknown")),
     notes |-> JsOr(body.notes, Str("")),
     filename |-> IF Truthy(body.file) THEN body.file ELSE Str("No file"),
     analysis |-> JsOr(body.agentName, Str("Unknown")),
     qualityScore |-> Num(60 + draw),
     sentiment |-> sentiment(Num(60 + draw)),
     source |-> Str("Upload"),
     createdAt |-> clock]

unshiftReplace(store, rec) == <<rec>>

\* calls.unshift(callRecord)
unshift(store, rec) == <<rec>> \o store

InitU ==
    /\ variant \in {"gemini", "mock"}
    /\ genAI \in (IF variant = "gemini" THEN BOOLEAN ELSE {FALSE})
    /\ calls = <<>>
    /\ req = [p \in Requests |-> Idle]
    /\ now = 0
    /\ aiCalls = 0
    /\ input = Outcome("throws", NoKeys)
    /\ output = fallback
    /\ phase = "unused"
    /\ file = NoFile

\* time passes between two readings of the clock
Tick ==
    /\ now < MaxClock
    /\ now' = now + 1
    /\ UNCHANGED <<genAI, input, output, phase, variant, calls, req, file, aiCalls>>

\* part_000, no credential: analyzeWithGemini returns the fallback without
\* suspending on the network, and the handler runs through to the redirect
UploadNoAI(p, body) ==
    /\ variant = "gemini"
    /\ ~genAI
    /\ Arrives(p)
    /\ LET ai == analyzeWithGemini(genAI, Outcome("throws", NoKeys))
       IN  calls' = unshift(calls, callRecord(calls, Len(calls), body, ai, now))
    /\ req' = [req EXCEPT ![p] = [pc |-> "done", status |-> 302,
                                  seenLen |-> Len(calls), body |-> body]]
    /\ UNCHANGED <<genAI, input, output, phase, variant, file, now, aiCalls>>

\* part_000, credential set: the handler suspends on model.generateContent
UploadStart(p, body) ==
    /\ variant = "gemini"
    /\ genAI
    /\ Arrives(p)
    /\ req' = [req EXCEPT ![p] = [pc |-> "awaiting", status |-> 0,
                                  seenLen |-> Len(calls), body |-> body]]
    /\ aiCalls' = aiCalls + 1
    /\ UNCHANGED <<genAI, input, output, phase, variant, calls, file, now>>

\* part_000: the AI call settles; the record is built, stored and the client
\* redirected
UploadResume(p, resp) ==
    /\ variant = "gemini"
    /\ req[p].pc = "awaiting"
    /\ LET ai == analyzeWithGemini(genAI, resp)
       IN  calls' = unshift(calls,
                callRecord(calls, req[p].seenLen, req[p].body, ai, now))
    /\ req' = [req EXCEPT ![p].pc = "done", ![p].status = 302]
    /\ UNCHANGED <<genAI, input, output, phase, variant, file, now, aiCalls>>

\* part_001: the whole handler is synchronous
UploadMock(p, body, draw) ==
    /\ variant = "mock"
    /\ Arrives(p)
    /\ calls' = unshift(calls, mockRecord(calls, Len(calls), body, draw, now))
    /\ req' = [req EXCEPT ![p] = [pc |-> "done", status |-> 302,
                                  seenLen |-> Len(calls), body |-> body]]
    /\ UNCHANGED <<genAI, input, output, phase, variant, file, now, aiCalls>>

NextU ==
    \/ Tick
    \/ \E p \in Requests, body \in Bodies : UploadNoAI(p, body)
    \/ \E p \in Requests, body \in Bodies : UploadStart(p, body)
    \/ \E p \in Requests, resp \in UOutcomes : UploadResume(p, resp)
    \/ \E p \in Requests, body \in Bodies, draw \in RandomDraws : UploadMock(p, body, draw)

SpecU == InitU /\ [][NextU]_vars

\* GET /api/calls
getCalls == calls

(***************************************************************************)
(* SpecP: the persisted variant (src/server.js)                            *)
(***************************************************************************)
\* the document loadData returns when data.json cannot be read or parsed
DefaultDoc ==
    [calls |-> <<>>,
     scripts |-> <<[id |-> "default", name |-> "Outbound Cold Call v1.0",
                    active |-> TRUE, content |-> "1. Greeting & intro"]>>]

\* the contents of data.json: unreadable, or a document
Unreadable == [readable |-> FALSE, doc |-> DefaultDoc]

loadData(disk) == IF disk.readable THEN disk.doc ELSE DefaultDoc

saveData(data) == [readable |-> TRUE, doc |-> data]

\* the scripts lists data.json may hold when the server starts: any number of
\* scripts up to MaxScripts, any of them marked active
ScriptIds == <<"default", "s2", "s3", "s4">>
StartScripts ==
    UNION {{[i \in 1..n |-> [id |-> ScriptIds[i], name |-> "n0",
                             active |-> a[i], content |-> "c0"]] :
               a \in [1..n -> BOOLEAN]} : n \in 0..MaxScripts}

StartDisks ==
    {Unreadable} \cup {saveData([calls |-> <<>>, scripts |-> sc]) : sc \in StartScripts}

\* data.scripts.find((s) => s.id === id): its index, 0 when there is none
RECURSIVE FindFrom(_, _, _)
FindFrom(scripts, id, i) ==
    IF i > Len(scripts) THEN 0
    ELSE IF scripts[i].id = id THEN i
    ELSE FindFrom(scripts, id, i + 1)
FindScript(scripts, id) == FindFrom(scripts, id, 1)

\* data.scripts.find((s) => s.active) || data.scripts[0]: 0 when undefined
RECURSIVE FindActiveFrom(_, _)
FindActiveFrom(scripts, i) ==
    IF i > Len(scripts) THEN 0
    ELSE IF scripts[i].active THEN i
    ELSE FindActiveFrom(scripts, i + 1)
activeScript(scripts) ==
    IF FindActiveFrom(scripts, 1) # 0 THEN FindActiveFrom(scripts, 1)
    ELSE IF Len(scripts) > 0 THEN 1 ELSE 0

setActiveOnly(scripts, k, active) ==
    [scripts EXCEPT ![k].active = active]

\* data.scripts.forEach((s) => (s.active = false)); script.active = active
setActive(scripts, k, active) ==
    [i \in 1..Len(scripts) |->
        [scripts[i] EXCEPT !.active = IF i = k THEN active ELSE FALSE]]

\* the body of a PUT /api/scripts/:id
NoPut == [content |-> Undefined, name |-> Undefined, active |-> Undefined]
PutBodies ==
    {[NoPut EXCEPT !.content = Str("c1")],
     [NoPut EXCEPT !.name = Str("n1")],
     [NoPut EXCEPT !.active = Bool(TRUE)],
     [NoPut EXCEPT !.active = Bool(FALSE)],
     [NoPut EXCEPT !.active = Str("true")],
     [content |-> Str("c1"), name |-> Str("n1"), active |-> Bool(TRUE)]}
PutIds == {ScriptIds[i] : i \in 1..(MaxScripts + 1)}

\* the three typeof-guarded assignments of the PUT handler
updateScript(scripts, k, body) ==
    LET s1 == IF TypeOf(body.content) = "string"
              THEN [scripts EXCEPT ![k].content = body.content.s] ELSE scripts
        s2 == IF TypeOf(body.name) = "string"
              THEN [s1 EXCEPT ![k].name = body.name.s] ELSE s1
    IN  IF TypeOf(body.active) = "boolean"
        THEN setActive(s2, k, body.active.n = 1) ELSE s2

\* s.trim() of the strings the model sends
Trim(v) == IF v.s = "  " THEN Str("") ELSE v

BlankNoTrim(transcript) == ~Truthy(transcript)

\* !transcript || !transcript.trim()
Blank(transcript) == ~Truthy(transcript) \/ ~Truthy(Trim(transcript))

\* agentName && agentName.trim().length ? agentName.trim() : "Unknown"
cleanAgent(agentName) ==
    IF Truthy(agentName) /\ Trim(agentName).s # "" THEN Trim(agentName)
    ELSE Str("Unknown")

summarizeAppointmentLikelihood(score) ==
    IF JsGE(score, 80) THEN "Very high"
    ELSE IF JsGE(score, 60) THEN "High"
    ELSE IF JsGE(score, 40) THEN "Medium"
    ELSE "Low"

\* the keys of the JSON object the persisted variant's prompt asks for
PKeys ==
    {"qualityScore", "sentiment", "conversionLikelihoodScore",
     "scriptAdherenceScore", "scriptAdherenceSummary", "timeline",
     "keyObjections", "improvementAreas", "coachingPlan",
     "appointmentRecommendation"}
NoPKeys == [k \in PKeys |-> Undefined]

\* what the AI call of an analyze request may come to
POutcomes ==
    {Outcome(kind, NoPKeys) : kind \in {"throws", "unparsable", "null", "primitive"}}
    \cup {Outcome("object", NoPKeys),
          Outcome("object",
                  [k \in PKeys |->
                      CASE k = "qualityScore" -> Num(90)
                        [] k = "sentiment" -> Str("Positive")
                        [] k = "conversionLikelihoodScore" -> Num(70)
                        [] k = "scriptAdherenceScore" -> Num(55)
                        [] k \in {"scriptAdherenceSummary", "appointmentRecommendation"}
                             -> Str(k)
                        [] OTHER -> Arr(k)])}

\* the forms an analyze request may carry
PBodies ==
    {[agentName |-> Undefined, notes |-> Undefined, transcript |-> t] :
        t \in {Undefined, Str(""), Str("  ")}}
    \cup {[agentName |-> a, notes |-> Str("note"), transcript |-> Str("hello")] :
            a \in {Str("Ann"), Str("  ")}}

\* const callRecord = {...} of the analyze handler
analyzeRecord(body, analysis, clock) ==
    [id |-> clock,
     createdAt |-> clock,
     agentName |-> cleanAgent(body.agentName),
     notes |-> JsOr(body.notes, Str("")),
     transcript |-> body.transcript,
     sentiment |-> JsOr(Get(analysis, "sentiment"), Str("Unknown")),
     qualityScore |-> Coalesce(Get(analysis, "qualityScore"), Num(0)),
     conversionLikelihoodScore |->
         Coalesce(Get(analysis, "conversionLikelihoodScore"), Num(0)),
     conversionLikelihoodText |->
         summarizeAppointmentLikelihood(
             Coalesce(Get(analysis, "conversionLikelihoodScore"), Num(0))),
     scriptAdherenceScore |-> Coalesce(Get(analysis, "scriptAdherenceScore"), Num(0)),
     scriptAdherenceSummary |-> JsOr(Get(analysis, "scriptAdherenceSummary"), Str("")),
     timeline |-> JsOr(Get(analysis, "timeline"), Arr("")),
     keyObjections |-> JsOr(Get(analysis, "keyObjections"), Arr("")),
     improvementAreas |-> JsOr(Get(analysis, "improvementAreas"), Arr("")),
     coachingPlan |-> JsOr(Get(analysis, "coachingPlan"), Arr("")),
     appointmentRecommendation |->
         JsOr(Get(analysis, "appointmentRecommendation"), Str("")),
     raw |-> analysis]

dataReloaded(loaded, disk) == loadData(disk)

\* the document the handler saves into: the one it loaded before the AI call
dataAtSave(loaded, disk) == loaded

NoPutYet == [id |-> "", body |-> NoPut, status |-> 0, n |-> 0]
NoBody == [agentName |-> Undefined, notes |-> Undefined, transcript |-> Undefined]
PIdle == [pc |-> "idle", status |-> 0, body |-> NoBody, data |-> DefaultDoc]

InitP ==
    /\ genAI \in BOOLEAN
    /\ \E disk \in StartDisks : file = saveData(loadData(disk))
    /\ req = [p \in Requests |-> PIdle]
    /\ now = 0
    /\ aiCalls = 0
    /\ calls = <<>>
    /\ input = Outcome("throws", NoKeys)
    /\ output = fallback
    /\ phase = NoPutYet
    /\ variant = "persisted"

\* PUT /api/scripts/:id (synchronous): phase holds the request, the status
\* of the response and how many PUTs were served
PutScript(id, body) ==
    LET data == loadData(file)
        k == FindScript(data.scripts, id)
    IN  /\ variant = "persisted"
        /\ phase.n < MaxPuts
        /\ IF k = 0
           THEN /\ phase' = [id |-> id, body |-> body, status |-> 404,
                             n |-> phase.n + 1]
                /\ file' = file
           ELSE /\ phase' = [id |-> id, body |-> body, status |-> 200,
                             n |-> phase.n + 1]
                /\ file' = saveData([data EXCEPT
                                        !.scripts = updateScript(data.scripts, k, body)])
        /\ UNCHANGED <<genAI, input, output, variant, calls, req, now, aiCalls>>

\* POST /api/calls/analyze up to its first await, or to the response that
\* ends it before
AnalyzeStart(p, body) ==
    /\ variant = "persisted"
    /\ Arrives(p)
    /\ IF ~genAI
       THEN /\ req' = [req EXCEPT ![p] = [pc |-> "done", status |-> 500,
                                          body |-> body, data |-> DefaultDoc]]
            /\ aiCalls' = aiCalls
       ELSE IF Blank(body.transcript)
       THEN /\ req' = [req EXCEPT ![p] = [pc |-> "done", status |-> 400,
                                          body |-> body, data |-> DefaultDoc]]
            /\ aiCalls' = aiCalls
       ELSE IF activeScript(loadData(file).scripts) = 0
       THEN \* activeScript.content throws; the catch answers 500
            /\ req' = [req EXCEPT ![p] = [pc |-> "done", status |-> 500,
                                          body |-> body, data |-> loadData(file)]]
            /\ aiCalls' = aiCalls
       ELSE /\ req' = [req EXCEPT ![p] = [pc |-> "awaiting", status |-> 0,
                                          body |-> body, data |-> loadData(file)]]
            /\ aiCalls' = aiCalls + 1
    /\ UNCHANGED <<genAI, input, output, phase, variant, calls, file, now>>

\* the AI call settles: a 500 when it rejected, its text does not parse or
\* parses to null (analysis.sentiment throws); otherwise the record is
\* prepended to the loaded document, which is saved
AnalyzeResume(p, resp) ==
    /\ variant = "persisted"
    /\ req[p].pc = "awaiting"
    /\ IF resp.kind \in {"throws", "unparsable", "null"}
       THEN /\ req' = [req EXCEPT ![p].pc = "done", ![p].status = 500]
            /\ file' = file
       ELSE LET data == dataAtSave(req[p].data, file)
                rec == analyzeRecord(req[p].body, resp, now)
            IN  /\ file' = saveData([data EXCEPT !.calls = unshift(data.calls, rec)])
                /\ req' = [req EXCEPT ![p].pc = "done", ![p].status = 200]
    /\ UNCHANGED <<genAI, input, output, phase, variant, calls, now, aiCalls>>

\* Date.now() advances
TickP ==
    /\ variant = "persisted"
    /\ now < MaxClock
    /\ now' = now + 1
    /\ UNCHANGED <<genAI, input, output, phase, variant, calls, req, file, aiCalls>>

NextP ==
    \/ TickP
    \/ \E id \in PutIds, body \in PutBodies : PutScript(id, body)
    \/ \E p \in Requests, body \in PBodies : AnalyzeStart(p, body)
    \/ \E p \in Requests, resp \in POutcomes : AnalyzeResume(p, resp)

SpecP == InitP /\ [][NextP]_vars

(***************************************************************************)
(* Claims on the in-memory variants (SpecU)                                *)
(***************************************************************************)
Done == {p \in Requests : req[p].pc = "done"}

\* the canned record of analyzeWithGemini, as the source spells it
Canned ==
    [qualityScore |-> Num(78),
     appointmentOutcome |-> Str("FollowUp"),
     conversionLikelihood |-> Str("Medium"),
     scriptAdherence |-> Rat(3, 4),
     skills |-> Obj("discovery 80, objectionHandling 65, closing 70, rapport 90"),
     coachingSummary |-> Str("Good rapport. Improve discovery questions"),
     callTimeline |-> Arr("Script Adherence, Objection"),
     keyObjections |-> Arr("Price sensitivity"),
     strengths |-> Arr("Warm tone and rapport"),
     improvements |-> Arr("Ask more open-ended discovery questions"),
     coachingPlan |-> Arr("Roleplay 3 common price objections."),
     recommendedPhrases |-> Arr("What would make this valuable enough"),
     phrasesToAvoid |-> Arr("It's just our standard package.")]

\* C6: with no AI credential every POST /upload is answered with the redirect,
\* no AI call is made, and each upload appended exactly one record whose
\* analysis fields are the canned fallback values.
C6_UnconfiguredUpload ==
    (variant = "gemini" /\ ~genAI) =>
        /\ aiCalls = 0
        /\ \A p \in Requests : req[p].pc \in {"idle", "done"}
        /\ \A p \in Done : req[p].status = 302
        /\ Len(calls) = Cardinality(Done)
        /\ \A i \in 1..Len(calls) : \A f \in Fields : calls[i][f] = Canned[f]

\* every request was served without a credential
C6_Witness ==
    /\ variant = "gemini"
    /\ ~genAI
    /\ Done = Requests
    /\ Len(calls) = NumReq
    /\ calls[1].scriptAdherence = Rat(3, 4)

\* C8: GET /api/calls returns one record per completed upload, newest first,
\* with ids n, n-1, ..., 1 from first to last.
C8_IdsCountDown ==
    variant \in {"gemini", "mock"} =>
        /\ Len(getCalls) = Cardinality(Done)
        /\ \A i \in 1..Len(getCalls) : getCalls[i].id = Len(getCalls) - i + 1

\* every upload was suspended on the AI call while the store was still empty,
\* and all of them have completed
C8_Witness ==
    /\ variant = "gemini"
    /\ genAI
    /\ Done = Requests
    /\ \A p \in Requests : req[p].seenLen = 0
    /\ Len(getCalls) = NumReq

\* C9: every stored record's sentiment is "Positive" if its qualityScore >= 85,
\* "Neutral" if 75 <= qualityScore < 85 and "Needs Improvement" otherwise
\* (>= as the language compares the stored value with a number).
C9_SentimentFromScore ==
    variant \in {"gemini", "mock"} =>
        \A i \in 1..Len(calls) :
            LET q == ToNumber(calls[i].qualityScore)
                isNumber == q.d # 0
            IN  calls[i].sentiment =
                    IF isNumber /\ q.n >= 85 * q.d THEN "Positive"
                    ELSE IF isNumber /\ q.n >= 75 * q.d THEN "Neutral"
                    ELSE "Needs Improvement"

\* a stubbed response with qualityScore 92 was stored as Positive next to a
\* record at the Neutral threshold
C9_Witness ==
    /\ variant = "gemini"
    /\ \E i \in 1..Len(calls) :
          calls[i].qualityScore = Num(92) /\ calls[i].sentiment = "Positive"
    /\ \E i \in 1..Len(calls) :
          calls[i].qualityScore = Num(75) /\ calls[i].sentiment = "Neutral"

(***************************************************************************)
(* Claims on the persisted variant (SpecP)                                 *)
(***************************************************************************)
scriptsOf(disk) == loadData(disk).scripts
callsOf(disk) == loadData(disk).calls
Range(q) == {q[i] : i \in 1..Len(q)}

\* C1: after an update with active = true on an existing script B, B is
\* active and every other script is inactive in the saved document.
C1_ActivateOne ==
    [][\A id \in PutIds, body \in PutBodies :
          (/\ PutScript(id, body)
           /\ body.active = Bool(TRUE)
           /\ FindScript(scriptsOf(file), id) # 0)
          => \A i \in 1..Len(scriptsOf(file')) :
                scriptsOf(file')[i].active = (i = FindScript(scriptsOf(file), id))]_vars

\* the update activated the second of two scripts
C1_Witness ==
    /\ variant = "persisted"
    /\ phase.status = 200
    /\ phase.id = "s2"
    /\ phase.body.active = Bool(TRUE)
    /\ Len(scriptsOf(file)) = 2
    /\ ~scriptsOf(file)[1].active
    /\ scriptsOf(file)[2].active

\* C2 as stated: a call record written to the store is present in the store
\* in every later state, for every interleaving.
C2_AppendOnly ==
    [][\A r \in Range(callsOf(file)) : r \in Range(callsOf(file'))]_vars

\* C2 amended: a record written to the store is still there after every
\* later step, except a save by an analyze request whose loadData ran before
\* the record was written (the document it loaded lacks the record).
C2_LostOnlyByStaleSave ==
    [][\A r \in Range(callsOf(file)) :
          \/ r \in Range(callsOf(file'))
          \/ \E p \in Requests :
                /\ req[p].pc = "awaiting"
                /\ req'[p].pc = "done"
                /\ req'[p].status = 200
                /\ r \notin Range(req[p].data.calls)]_vars

\* a second analyze request loaded the first one's record and saved both
C2_Witness ==
    /\ variant = "persisted"
    /\ Len(callsOf(file)) = 2
    /\ \E p \in Requests : req[p].status = 200 /\ Len(req[p].data.calls) = 1

\* the request that is answered in this step carried no transcript, an empty
\* one or a whitespace-only one
BlankRequestServed(p) ==
    /\ variant = "persisted"
    /\ req[p].pc = "idle"
    /\ req'[p].pc # "idle"
    /\ req'[p].body.transcript \in {Undefined, Str(""), Str("  ")}

\* C3 as stated: a missing, empty or whitespace-only transcript is rejected
\* with 400, no AI call is issued and the store is unchanged, in every
\* server configuration.
C3_BlankIs400 ==
    [][\A p \in Requests :
          BlankRequestServed(p) =>
              /\ req'[p].pc = "done"
              /\ req'[p].status = 400
              /\ aiCalls' = aiCalls
              /\ file' = file]_vars

\* C3 amended: such a request is rejected with no AI call and the store
\* unchanged in every configuration; the status is 400 when the AI
\* credential is configured and 500 when it is not.
C3_BlankRejected ==
    [][\A p \in Requests :
          BlankRequestServed(p) =>
              /\ req'[p].pc = "done"
              /\ req'[p].status = (IF genAI THEN 400 ELSE 500)
              /\ aiCalls' = aiCalls
              /\ file' = file]_vars

\* a whitespace-only transcript was answered 400 with no AI call made
C3_Witness ==
    /\ variant = "persisted"
    /\ genAI
    /\ aiCalls = 0
    /\ callsOf(file) = <<>>
    /\ \E p \in Requests :
          /\ req[p].pc = "done"
          /\ req[p].status = 400
          /\ req[p].body.transcript = Str("  ")

\* C10 as stated: an analyze request never changes the scripts list of the
\* store.
C10_ScriptsUntouched ==
    [][\A p \in Requests :
          (req[p].pc = "awaiting" /\ req'[p].pc = "done")
          => scriptsOf(file') = scriptsOf(file)]_vars

\* C10 amended: an analyze request saves the scripts list exactly as it
\* loaded it before the AI call, and saves nothing when it fails; so an
\* update saved by PUT survives every analyze request that loaded after it,
\* and is overwritten by one that loaded before it and saves after it.
C10_ScriptsAsLoaded ==
    [][\A p \in Requests :
          (req[p].pc = "awaiting" /\ req'[p].pc = "done")
          => IF req'[p].status = 200
             THEN scriptsOf(file') = req[p].data.scripts
             ELSE file' = file]_vars

\* an analyze request loaded the document after a PUT changed a script's
\* content and saved it back with the change
C10_Witness ==
    /\ variant = "persisted"
    /\ phase.status = 200
    /\ phase.body.content = Str("c1")
    /\ \E p \in Requests :
          /\ req[p].pc = "done"
          /\ req[p].status = 200
          /\ req[p].data.scripts = scriptsOf(file)
          /\ \E i \in 1..Len(req[p].data.scripts) :
                req[p].data.scripts[i].content = "c1"
    /\ Len(callsOf(file)) > 0

====
